---- MODULE Spec2Model ----
(***************************************************************************)
(* Model of lingvo/tasks/car/input_extractor.py: the FieldsExtractor base  *)
(* class, the LaserExtractor interface class, and subclasses that override *)
(* some of their methods.  One extractor is constructed (Init); every      *)
(* public method call is one action that runs the whole method and leaves  *)
(* the call's frame (callee log, locals, outcome) in `last`.               *)
(*                                                                         *)
(* A NestedMap is a function from key paths to leaves; an optional value   *)
(* (Python None or x) is the set {} or {x}; a TensorShape is the tuple of  *)
(* its optional dimensions.                                                *)
(***************************************************************************)
EXTENDS Integers, Sequences, FiniteSets, TLC

VARIABLES self, last, seen, built

vars == <<self, last, seen, built>>

\* ------------------------------------------------------------------ bounds
MaxNumPoints == 1
MaxNumFeatures == 1

\* ------------------------------------------------------------- value model
None == {}
Some(x) == {x}

\* Imported from base_extractor: the bucket id that drops an example.
BUCKET_UPPER_BOUND == 9999

EmptyMap == [k \in {} |-> 0]

xyz == <<"points_xyz">>
feature == <<"points_feature">>
padding == <<"points_padding">>
nested_xyz == <<"lasers", "points_xyz">>

\* Key structures a subclass's _Extract may produce (flat and nested ones).
Structs ==
  { {}, {xyz}, {xyz, feature}, {xyz, feature, padding}, {nested_xyz},
    {nested_xyz, feature} }

\* Key structures a subclass's Shape and DType overrides may declare.
DeclStructs == { {xyz, feature}, {nested_xyz, feature} }

\* Key structures of the outputs handed to Filter.
FilterStructs == { {}, {xyz, feature}, {xyz, feature, padding} }

\* The raw fields a subclass's FeatureMap override may ask for.
FeatureNames == { {}, {<<"laser">>} }

\* A NestedMap with the key structure ks and the same leaf everywhere.
MapOf(ks, leaf) == [k \in ks |-> leaf]

\* The raw field dictionaries handed to Extract.
Features == {MapOf({}, "Tensor"), MapOf({<<"laser">>}, "Tensor")}

Methods == {"FeatureMap", "_Extract", "Shape", "DType", "Filter"}

\* Option values a caller may assign before instantiation.
PointValues == {None} \cup {Some(n) : n \in 0..MaxNumPoints} \cup {Some(1024)}
FeatureValues == (1..MaxNumFeatures) \cup {4}

\* -------------------------------------------------------------- exceptions
Return(v) == [status |-> "return", exc |-> "", by |-> "", value |-> v,
              msg |-> <<>>]
Raise(e, m) == [status |-> "raise", exc |-> e, by |-> m, value |-> EmptyMap,
                msg |-> <<>>]
RaiseMsg(e, m, text) == [status |-> "raise", exc |-> e, by |-> m,
                         value |-> EmptyMap, msg |-> text]

\* ------------------------------------------------------------ py_utils
\* NestedMap.IsCompatible and NestedMap.DebugString live in lingvo.core.py_utils:
\* two maps are compatible when their key sets and nesting agree, and the
\* rendering of a map lists each key path with its value.
IsCompatible(a, b) == DOMAIN a = DOMAIN b

DebugString(m) == {<<k, m[k]>> : k \in DOMAIN m}

\* ------------------------------------------------------------ Params
ClassName(cls, overrides) == IF overrides = {} THEN cls ELSE "Sub" \o cls

FieldsExtractor_Params(name) == [name |-> name]

LaserExtractor_Params(name) ==
  [name |-> FieldsExtractor_Params(name).name,
   max_num_points |-> None,
   num_features |-> 1]

\* p with the options the caller assigned (a function from option names).
Configure(p, assigned) ==
  [o \in DOMAIN p |-> IF o \in DOMAIN assigned THEN assigned[o] ELSE p[o]]

Assignments ==
  {EmptyMap}
    \cup {("max_num_points" :> m) : m \in PointValues}
    \cup {("num_features" :> f) : f \in FeatureValues}
    \cup {("max_num_points" :> m) @@ ("num_features" :> f) :
            m \in PointValues, f \in FeatureValues}

\* cls.Params() of the class being instantiated.
Params(cls, overrides) ==
  IF cls = "LaserExtractor"
    THEN LaserExtractor_Params(ClassName(cls, overrides))
    ELSE FieldsExtractor_Params(ClassName(cls, overrides))

\* The extractor object: its class (base class plus the methods a subclass
\* overrides), its params, and what the subclass's overrides declare.
Instantiate(cls, overrides, assigned, decl, fm) ==
  [cls |-> cls, overrides |-> overrides,
   params |-> Configure(Params(cls, overrides), assigned),
   decl |-> decl, fm |-> fm]

\* --------------------------------------------------- FieldsExtractor methods
\* Mutant: the base class answers with an empty schema instead of raising.
FeatureMapEmptyDefault(e) == Return(EmptyMap)

FieldsExtractor_FeatureMap(e) == Raise("NotImplementedError", "FeatureMap")

\* Mutant: the base class declares an empty shape instead of raising.
ShapeEmptyDefault(e) == Return(EmptyMap)

FieldsExtractor_Shape(e) == Raise("NotImplementedError", "Shape")

FieldsExtractor_DType(e) == Raise("NotImplementedError", "DType")

FieldsExtractor__Extract(e, features) == Raise("NotImplementedError", "_Extract")

\* Mutant: the default filter drops examples that have no outputs.
FilterDropsEmpty(e, outputs) ==
  IF DOMAIN outputs = {} THEN BUCKET_UPPER_BOUND ELSE 1

FieldsExtractor_Filter(e, outputs) == 1

\* ---------------------------------------------------- LaserExtractor methods
\* Mutant: points_padding is declared whatever max_num_points is.
ShapeAlwaysPadding(e) ==
  LET p == e.params
  IN  Return((xyz :> <<p.max_num_points, Some(3)>>)
               @@ (feature :> <<p.max_num_points, Some(p.num_features)>>)
               @@ (padding :> <<p.max_num_points>>))

\* Mutant: the feature width is the literal 3 of points_xyz, not num_features.
ShapeFeatureWidthThree(e) ==
  LET p == e.params
      ret == (xyz :> <<p.max_num_points, Some(3)>>)
               @@ (feature :> <<p.max_num_points, Some(3)>>)
  IN  IF p.max_num_points # None
        THEN Return(ret @@ (padding :> <<p.max_num_points>>))
        ELSE Return(ret)

LaserExtractor_Shape(e) ==
  LET p == e.params
      ret == (xyz :> <<p.max_num_points, Some(3)>>)
               @@ (feature :> <<p.max_num_points, Some(p.num_features)>>)
  IN  IF p.max_num_points # None
        THEN Return(ret @@ (padding :> <<p.max_num_points>>))
        ELSE Return(ret)

\* Mutant: DType never declares points_padding.
DTypeNoPadding(e) == Return((xyz :> "float32") @@ (feature :> "float32"))

LaserExtractor_DType(e) ==
  LET ret == (xyz :> "float32") @@ (feature :> "float32")
  IN  IF e.params.max_num_points # None
        THEN Return(ret @@ (padding :> "float32"))
        ELSE Return(ret)

\* ------------------------------------------------- a subclass's overrides
Sub_FeatureMap(e) == Return(MapOf(e.fm, "VarLenFeature"))

Sub_Shape(e) == Return(MapOf(e.decl, <<Some(1)>>))

Sub_DType(e) == Return(MapOf(e.decl, "float32"))

\* out: the key structure this subclass produces for these features.
Sub__Extract(e, features, out) == Return(MapOf(out, "Tensor"))

\* bucket: the bucket id this subclass computes for these outputs.
Sub_Filter(e, outputs, bucket) == bucket

\* ------------------------------------------------------- method resolution
FeatureMap(e) ==
  IF "FeatureMap" \in e.overrides THEN Sub_FeatureMap(e)
  ELSE FieldsExtractor_FeatureMap(e)

Shape(e) ==
  IF "Shape" \in e.overrides THEN Sub_Shape(e)
  ELSE IF e.cls = "LaserExtractor" THEN LaserExtractor_Shape(e)
  ELSE FieldsExtractor_Shape(e)

DType(e) ==
  IF "DType" \in e.overrides THEN Sub_DType(e)
  ELSE IF e.cls = "LaserExtractor" THEN LaserExtractor_DType(e)
  ELSE FieldsExtractor_DType(e)

_Extract(e, features, out) ==
  IF "_Extract" \in e.overrides THEN Sub__Extract(e, features, out)
  ELSE FieldsExtractor__Extract(e, features)

Filter(e, outputs, bucket) ==
  IF "Filter" \in e.overrides THEN Sub_Filter(e, outputs, bucket)
  ELSE FieldsExtractor_Filter(e, outputs)

\* ------------------------------------------------------------- Extract
Frame(calls, outputs, shapes, result) ==
  [calls |-> calls, outputs |-> outputs, shapes |-> shapes, result |-> result]

\* Mutant: the assertion is gone; the outputs are returned unvalidated.
ExtractNoAssert(e, features, out) ==
  LET r1 == _Extract(e, features, out)
      r2 == Shape(e)
  IN  IF r1.status = "raise"
        THEN Frame(<<"_Extract">>, EmptyMap, EmptyMap, r1)
      ELSE IF r2.status = "raise"
        THEN Frame(<<"_Extract", "Shape">>, r1.value, EmptyMap, r2)
      ELSE Frame(<<"_Extract", "Shape">>, r1.value, r2.value, Return(r1.value))

\* Mutant: mismatching outputs are rebuilt on the declared keys and returned.
ExtractPadsToShape(e, features, out) ==
  LET r1 == _Extract(e, features, out)
      r2 == Shape(e)
  IN  IF r1.status = "raise"
        THEN Frame(<<"_Extract">>, EmptyMap, EmptyMap, r1)
      ELSE IF r2.status = "raise"
        THEN Frame(<<"_Extract", "Shape">>, r1.value, EmptyMap, r2)
      ELSE Frame(<<"_Extract", "Shape", "IsCompatible">>, r1.value, r2.value,
                 Return(MapOf(DOMAIN r2.value, "Tensor")))

\* Mutant: Shape() is consulted before _Extract runs.
ExtractShapeFirst(e, features, out) ==
  LET r1 == _Extract(e, features, out)
      r2 == Shape(e)
  IN  IF r2.status = "raise"
        THEN Frame(<<"Shape">>, EmptyMap, EmptyMap, r2)
      ELSE IF r1.status = "raise"
        THEN Frame(<<"Shape", "_Extract">>, EmptyMap, r2.value, r1)
      ELSE IF ~IsCompatible(r1.value, r2.value)
        THEN Frame(<<"Shape", "_Extract", "IsCompatible", "DebugString",
                     "DebugString">>, r1.value, r2.value,
                   RaiseMsg("AssertionError", "Extract",
                            <<DebugString(r1.value), " vs. ",
                              DebugString(r2.value)>>))
      ELSE Frame(<<"Shape", "_Extract", "IsCompatible">>, r1.value, r2.value,
                 Return(r1.value))

\* The whole of FieldsExtractor.Extract: the callees in call order, the
\* locals `outputs` and `shapes`, and how the call ends.
FieldsExtractor_Extract(e, features, out) ==
  LET r1 == _Extract(e, features, out)
      r2 == Shape(e)
  IN  IF r1.status = "raise"
        THEN Frame(<<"_Extract">>, EmptyMap, EmptyMap, r1)
      ELSE IF r2.status = "raise"
        THEN Frame(<<"_Extract", "Shape">>, r1.value, EmptyMap, r2)
      ELSE IF ~IsCompatible(r1.value, r2.value)
        THEN Frame(<<"_Extract", "Shape", "IsCompatible", "DebugString",
                     "DebugString">>, r1.value, r2.value,
                   RaiseMsg("AssertionError", "Extract",
                            <<DebugString(r1.value), " vs. ",
                              DebugString(r2.value)>>))
      ELSE Frame(<<"_Extract", "Shape", "IsCompatible">>, r1.value, r2.value,
                 Return(r1.value))

\* ------------------------------------------------------------ state machine
Pure == {"FeatureMap", "Shape", "DType"}

Idle == [op |-> "none", arg |-> EmptyMap, repeat |-> FALSE,
         frame |-> Frame(<<>>, EmptyMap, EmptyMap, Return(EmptyMap))]

Init ==
  \E cls \in {"FieldsExtractor", "LaserExtractor"}, ov \in SUBSET Methods,
     a \in Assignments, decl \in DeclStructs \cup {{}}, fm \in FeatureNames :
    /\ cls = "FieldsExtractor" => a = EmptyMap
    /\ decl = {} <=> ov \cap {"Shape", "DType"} = {}
    /\ "FeatureMap" \notin ov => fm = {}
    /\ self = Instantiate(cls, ov, a, decl, fm)
    /\ built = [params |-> self.params, assigned |-> DOMAIN a]
    /\ last = Idle
    /\ seen = [m \in Pure |-> {}]

Observe(m, r) == seen' = [seen EXCEPT ![m] = @ \cup {r}]

CallFeatureMap ==
  LET r == FeatureMap(self)
  IN  /\ last' = [op |-> "FeatureMap", arg |-> EmptyMap,
                  repeat |-> seen["FeatureMap"] # {},
                  frame |-> Frame(<<>>, EmptyMap, EmptyMap, r)]
      /\ Observe("FeatureMap", r)
      /\ UNCHANGED <<self, built>>

\* Mutant: Shape() consumes max_num_points, leaving the option unset.
CallShapeConsumesOption ==
  LET r == Shape(self)
  IN  /\ last' = [op |-> "Shape", arg |-> EmptyMap,
                  repeat |-> seen["Shape"] # {},
                  frame |-> Frame(<<>>, EmptyMap, EmptyMap, r)]
      /\ Observe("Shape", r)
      /\ self' = [self EXCEPT
                    !.params = Configure(@, "max_num_points" :> None)]
      /\ UNCHANGED built

CallShape ==
  LET r == Shape(self)
  IN  /\ last' = [op |-> "Shape", arg |-> EmptyMap,
                  repeat |-> seen["Shape"] # {},
                  frame |-> Frame(<<>>, EmptyMap, EmptyMap, r)]
      /\ Observe("Shape", r)
      /\ UNCHANGED <<self, built>>

CallDType ==
  LET r == DType(self)
  IN  /\ last' = [op |-> "DType", arg |-> EmptyMap,
                  repeat |-> seen["DType"] # {},
                  frame |-> Frame(<<>>, EmptyMap, EmptyMap, r)]
      /\ Observe("DType", r)
      /\ UNCHANGED <<self, built>>

CallExtract ==
  \E features \in Features, out \in Structs :
    /\ last' = [op |-> "Extract", arg |-> features, repeat |-> FALSE,
                frame |-> FieldsExtractor_Extract(self, features, out)]
    /\ UNCHANGED <<self, built, seen>>

CallFilter ==
  \E out \in FilterStructs, bucket \in {1, BUCKET_UPPER_BOUND} :
    LET outputs == MapOf(out, "Tensor")
    IN  /\ last' = [op |-> "Filter", arg |-> outputs, repeat |-> FALSE,
                    frame |-> Frame(<<>>, EmptyMap, EmptyMap,
                                    Return(Filter(self, outputs, bucket)))]
        /\ UNCHANGED <<self, built, seen>>

Next ==
  \/ CallFeatureMap
  \/ CallShape
  \/ CallDType
  \/ CallExtract
  \/ CallFilter

Spec == Init /\ [][Next]_vars

\* ------------------------------------------------------------ properties
\* The class whose definition of method m the extractor e runs.
Provider(e, m) ==
  IF m \in e.overrides THEN "Sub"
  ELSE IF e.cls = "LaserExtractor" /\ m \in {"Shape", "DType"}
    THEN "LaserExtractor"
  ELSE "FieldsExtractor"

\* The extractor declares its shape and dtype with LaserExtractor's methods.
IsLaser == Provider(self, "Shape") = "LaserExtractor"
             /\ Provider(self, "DType") = "LaserExtractor"

res == last.frame.result

NotImplemented(m) ==
  /\ res.status = "raise"
  /\ res.exc = "NotImplementedError"
  /\ res.by = m
  /\ res.value = EmptyMap

\* C1: whenever Extract returns normally, the returned output has exactly the
\* key set and nesting of Shape(); no Extract call returns an output whose
\* structure differs from the declared shape.
C1_ExtractMatchesShape ==
  (last.op = "Extract" /\ res.status = "return")
    => /\ Shape(self).status = "return"
       /\ DOMAIN res.value = DOMAIN Shape(self).value

C1_Witness ==
  /\ last.op = "Extract"
  /\ res.status = "return"
  /\ DOMAIN res.value = {nested_xyz, feature}

\* C2: when _Extract returns an output whose key structure differs from
\* Shape(), Extract ends in an assertion error that carries the rendering of
\* the actual outputs and of the declared shapes, and returns no output.
C2_MismatchRaises ==
  (/\ last.op = "Extract"
   /\ Len(last.frame.calls) >= 2
   /\ Shape(self).status = "return"
   /\ DOMAIN last.frame.outputs # DOMAIN Shape(self).value)
    => /\ res.status = "raise"
       /\ res.exc = "AssertionError"
       /\ res.value = EmptyMap
       /\ res.msg = <<DebugString(last.frame.outputs), " vs. ",
                      DebugString(Shape(self).value)>>

C2_Witness ==
  /\ last.op = "Extract"
  /\ Provider(self, "Shape") = "Sub"
  /\ self.decl = {xyz, feature}
  /\ DOMAIN last.frame.outputs = {xyz}
  /\ res.exc = "AssertionError"

\* C3: for an extractor that does not override Filter, Filter returns 1 for
\* every structured output, never BUCKET_UPPER_BOUND or another value.
C3_DefaultFilterKeeps ==
  (last.op = "Filter" /\ Provider(self, "Filter") = "FieldsExtractor")
    => /\ res.status = "return"
       /\ res.value = 1
       /\ res.value # BUCKET_UPPER_BOUND

C3_Witness ==
  /\ last.op = "Filter"
  /\ Provider(self, "Filter") = "FieldsExtractor"
  /\ DOMAIN last.arg = {}
  /\ res.value = 1

\* C4: for the laser extractor under every configuration, the key set of
\* Shape() equals the key set of DType().
C4_LaserShapeDTypeKeys ==
  IsLaser =>
    \A sh \in seen["Shape"], dt \in seen["DType"] :
      /\ sh.status = "return"
      /\ dt.status = "return"
      /\ DOMAIN sh.value = DOMAIN dt.value

C4_Witness ==
  /\ IsLaser
  /\ seen["Shape"] # {}
  /\ seen["DType"] # {}
  /\ self.params.max_num_points = Some(0)

\* C5: for the laser extractor, points_padding is a key of Shape() and of
\* DType() iff max_num_points is not None (None being the default); points_xyz
\* and points_feature are keys of both in either case.
C5_PaddingIffMaxNumPoints ==
  IsLaser =>
    /\ "max_num_points" \notin built.assigned
         => self.params.max_num_points = None
    /\ \A m \in {"Shape", "DType"} : \A r \in seen[m] :
         /\ r.status = "return"
         /\ padding \in DOMAIN r.value <=> self.params.max_num_points # None
         /\ {xyz, feature} \subseteq DOMAIN r.value

C5_Witness ==
  /\ IsLaser
  /\ "max_num_points" \notin built.assigned
  /\ \E sh \in seen["Shape"] : padding \notin DOMAIN sh.value
  /\ \E dt \in seen["DType"] : padding \notin DOMAIN dt.value

\* C6: for the laser extractor with max_num_points = m (not None) and
\* num_features = f, Shape() is exactly points_xyz: [m, 3], points_feature:
\* [m, f], points_padding: [m] and DType() is float for these three fields;
\* with num_features left unassigned f is the default 1.
C6_LaserShapeValues ==
  (IsLaser /\ self.params.max_num_points # None) =>
    LET m == self.params.max_num_points
        f == IF "num_features" \in built.assigned
               THEN self.params.num_features ELSE 1
    IN  /\ \A sh \in seen["Shape"] :
             /\ sh.status = "return"
             /\ DOMAIN sh.value = {xyz, feature, padding}
             /\ sh.value[xyz] = <<m, {3}>>
             /\ sh.value[feature] = <<m, {f}>>
             /\ sh.value[padding] = <<m>>
        /\ \A dt \in seen["DType"] :
             /\ dt.status = "return"
             /\ DOMAIN dt.value = {xyz, feature, padding}
             /\ \A k \in DOMAIN dt.value : dt.value[k] = "float32"

C6_Witness ==
  /\ IsLaser
  /\ self.params.max_num_points = {1024}
  /\ self.params.num_features = 4
  /\ \E sh \in seen["Shape"] : sh.value[feature] = <<{1024}, {4}>>
  /\ seen["DType"] # {}

\* C7: Extract on an extractor that does not override _Extract fails with the
\* not-implemented error of _Extract before any validation: _Extract is the
\* only callee, Shape() is not consulted, and no output is returned.
C7_ExtractFailsBeforeValidation ==
  (last.op = "Extract" /\ Provider(self, "_Extract") = "FieldsExtractor")
    => /\ NotImplemented("_Extract")
       /\ last.frame.calls = <<"_Extract">>

C7_Witness ==
  /\ last.op = "Extract"
  /\ self.cls = "FieldsExtractor"
  /\ self.overrides = {}
  /\ res.by = "_Extract"

\* C8 as stated: FeatureMap() returns a mapping without failing on every
\* constructed extractor, the base and the laser extractor included.
C8_FeatureMapNeverFails ==
  last.op = "FeatureMap" => res.status = "return"

\* C8 as amended: on an extractor that does not override FeatureMap (the base
\* and the laser extractor included) FeatureMap() fails with a not-implemented
\* error and leaves the configuration as constructed.
C8_FeatureMapNotImplemented ==
  (last.op = "FeatureMap" /\ Provider(self, "FeatureMap") = "FieldsExtractor")
    => /\ NotImplemented("FeatureMap")
       /\ self.params = built.params

C8_Witness ==
  /\ last.op = "FeatureMap"
  /\ self.cls = "LaserExtractor"
  /\ self.overrides = {}
  /\ res.exc = "NotImplementedError"

\* C9: Shape(), DType() and FeatureMap() each yield one and the same result
\* however often and in whatever order they are called between Extract and
\* Filter calls, and no call changes the extractor's configuration.
C9_PureAndImmutable ==
  /\ \A m \in Pure : Cardinality(seen[m]) <= 1
  /\ self.params = built.params

C9_Witness ==
  /\ IsLaser
  /\ self.params.max_num_points # None
  /\ last.op = "Shape"
  /\ last.repeat
  /\ seen["DType"] # {}
  /\ seen["FeatureMap"] # {}

\* C10: on an extractor that does not override Shape (DType), Shape() (DType())
\* fails with a not-implemented error; Extract on an extractor that overrides
\* _Extract but not Shape fails with that error after _Extract has run, neither
\* returning the output nor reporting an assertion failure.
C10_MissingShapeNotImplemented ==
  /\ (last.op = "Shape" /\ Provider(self, "Shape") = "FieldsExtractor")
       => NotImplemented("Shape")
  /\ (last.op = "DType" /\ Provider(self, "DType") = "FieldsExtractor")
       => NotImplemented("DType")
  /\ (/\ last.op = "Extract"
      /\ Provider(self, "_Extract") = "Sub"
      /\ Provider(self, "Shape") = "FieldsExtractor")
       => /\ NotImplemented("Shape")
          /\ last.frame.calls = <<"_Extract", "Shape">>

C10_Witness ==
  /\ last.op = "Extract"
  /\ Provider(self, "_Extract") = "Sub"
  /\ Provider(self, "Shape") = "FieldsExtractor"
  /\ last.frame.calls = <<"_Extract", "Shape">>
  /\ DOMAIN last.frame.outputs = {xyz, feature}

====
